---- MODULE Spec2Model ----
(***************************************************************************)
(* Model of merkle_tree.go: construction of a binary Merkle tree (New),    *)
(* proof generation (proofGen / updateProofs), tree building with the      *)
(* background leaf-index goroutine (treeBuild), on-demand proofs (Proof)   *)
(* and the stateless verifier (Verify).                                    *)
(*                                                                         *)
(* Byte strings are sequences of symbols.  A symbol is a record            *)
(* [b, pre]: a raw byte has b >= 1 and pre = <<>>; a digest is one symbol  *)
(* with b = 0 that carries its preimage, i.e. a fixed-width block of a     *)
(* collision-free hash.  Buffers ([][]byte) are functions over 0..len-1 so *)
(* that indices are the indices of the Go code.                            *)
(***************************************************************************)
EXTENDS Integers, Sequences, FiniteSets, TLC

MaxBlocks == 5
MaxRoutines == 5
NumCPU == 3

ModeProofGen == 0
ModeTreeBuild == 1
ModeProofGenAndTreeBuild == 2

ErrInvalidNumOfDataBlocks == "the number of data blocks must be greater than 1"
ErrInvalidConfigMode == "invalid configuration mode"
ErrProofIsNil == "proof is nil"
ErrDataBlockIsNil == "data block is nil"
ErrProofInvalidModeTreeNotBuilt == "merkle tree is not in built, could not generate proof by this method"
ErrProofInvalidDataBlock == "data block is not a member of the merkle tree"
ErrSerialize == "serialize error"
ErrHash == "hash error"
NoErr == ""

----------------------------------------------------------------------------
(* Bytes *)

Raw(k) == [b |-> k, pre |-> <<>>]

Str(ks) == [i \in 1..Len(ks) |-> Raw(ks[i])]

\* the digest of x: one fixed-width block, distinct for distinct x
HashOf(x) == << [b |-> 0, pre |-> x] >>

RECURSIVE Height(_)
\* nesting depth of digests inside a byte string (0 for raw bytes)
Height(x) ==
    IF x = <<>> THEN 0
    ELSE LET h == IF Head(x).b = 0 THEN 1 + Height(Head(x).pre) ELSE 0
             t == Height(Tail(x))
         IN IF h > t THEN h ELSE t

RECURSIVE Compare(_, _)
\* bytes.Compare: lexicographic, a proper prefix is smaller
Compare(a, b) ==
    IF a = <<>> THEN (IF b = <<>> THEN 0 ELSE -1)
    ELSE IF b = <<>> THEN 1
    ELSE LET x == Head(a)
             y == Head(b)
             c == IF x.b # y.b THEN (IF x.b < y.b THEN -1 ELSE 1)
                  ELSE Compare(x.pre, y.pre)
         IN IF c # 0 THEN c ELSE Compare(Tail(a), Tail(b))

min(a, b) == IF a < b THEN a ELSE b

RECURSIVE BitsLen(_)
\* bits.Len
BitsLen(x) == IF x = 0 THEN 0 ELSE 1 + BitsLen(x \div 2)

RECURSIVE Pow2(_)
Pow2(k) == IF k = 0 THEN 1 ELSE 2 * Pow2(k - 1)

\* [][]byte buffers
BLen(buf) == Cardinality(DOMAIN buf)
MakeBuf(n) == [i \in 0..(n - 1) |-> <<>>]
Ok(v) == [val |-> v, err |-> NoErr]
Fail(e) == [val |-> <<>>, err |-> e]

----------------------------------------------------------------------------
(* Hash functions and concatenation *)

NilFunc == [fn |-> "nil", failAt |-> -1]
DefaultHashFunc == [fn |-> "DefaultHashFunc", failAt |-> -1]
DefaultHashFuncParallel == [fn |-> "DefaultHashFuncParallel", failAt |-> -1]
\* a caller-supplied hash function that fails on inputs of digest height k
CustomHashFunc(k) == [fn |-> "custom", failAt |-> k]

\* hf(x) for a TypeHashFunc value hf
CallHash(hf, x) ==
    IF hf.fn = "custom" /\ Height(x) = hf.failAt THEN Fail(ErrHash)
    ELSE Ok(HashOf(x))

\* faulty variant: the result is allocated with len(b1) only, so b2 is dropped
concatHashTruncated(b1, b2) == b1

concatHash(b1, b2) == b1 \o b2

concatSortHash(b1, b2) ==
    IF Compare(b1, b2) < 0 THEN concatHash(b1, b2) ELSE concatHash(b2, b1)

\* cf(b1, b2) for a concatFunc value cf
CallConcat(cf, b1, b2) ==
    IF cf = "concatSortHash" THEN concatSortHash(b1, b2) ELSE concatHash(b1, b2)

\* m.HashFunc(m.concatFunc(l, r))
HashPair(c, l, r) == CallHash(c.HashFunc, CallConcat(c.concatFunc, l, r))

----------------------------------------------------------------------------
(* Leaf generation *)

leafFromBlock(block, config) ==
    IF block.fails THEN Fail(ErrSerialize)
    ELSE IF config.DisableLeafHashing THEN Ok(block.data)
    ELSE CallHash(config.HashFunc, block.data)

RECURSIVE leafGenLoop(_, _, _, _)
leafGenLoop(m, blocks, leaves, i) ==
    IF i >= m.NumLeaves THEN Ok(leaves)
    ELSE LET next(r) == IF r.err # NoErr THEN Fail(r.err)
                        ELSE leafGenLoop(m, blocks, [leaves EXCEPT ![i] = r.val], i + 1)
         IN next(leafFromBlock(blocks[i], m))

leafGen(m, blocks) == leafGenLoop(m, blocks, MakeBuf(m.NumLeaves), 0)

RECURSIVE leafGenHandler(_, _, _, _, _, _)
\* one worker: fills leaves[i] for i = start, start+numRoutines, ...
leafGenHandler(m, blocks, leaves, i, lenLeaves, numRoutines) ==
    IF i >= lenLeaves THEN Ok(leaves)
    ELSE LET next(r) ==
                 IF r.err # NoErr THEN [val |-> leaves, err |-> r.err]
                 ELSE leafGenHandler(m, blocks, [leaves EXCEPT ![i] = r.val],
                                     i + numRoutines, lenLeaves, numRoutines)
         IN next(leafFromBlock(blocks[i], m))

RECURSIVE leafGenMap(_, _, _, _, _, _)
\* wp.Map(leafGenHandler, argList): workers w..numRoutines-1, first error of the list
leafGenMap(m, blocks, leaves, w, lenLeaves, numRoutines) ==
    IF w >= numRoutines THEN Ok(leaves)
    ELSE LET join(r, rest) ==
                 IF r.err # NoErr THEN [val |-> rest.val, err |-> r.err] ELSE rest
             others(r) ==
                 join(r, leafGenMap(m, blocks, r.val, w + 1, lenLeaves, numRoutines))
         IN others(leafGenHandler(m, blocks, leaves, w, lenLeaves, numRoutines))

leafGenParallel(m, blocks) ==
    LET lenLeaves == BLen(blocks)
        numRoutines == min(m.NumRoutines, lenLeaves)
        result(r) == IF r.err # NoErr THEN Fail(r.err) ELSE Ok(r.val)
    IN result(leafGenMap(m, blocks, MakeBuf(lenLeaves), 0, lenLeaves, numRoutines))

----------------------------------------------------------------------------
(* Odd-node balancing and proof recording *)

\* faulty variant: duplicates the node before the last one (buf[prevLen-2])
fixOddBeforeLast(buf, prevLen) ==
    IF prevLen % 2 = 0 THEN [buf |-> buf, prevLen |-> prevLen]
    ELSE LET appendNode == buf[prevLen - 2]
         IN IF BLen(buf) < prevLen + 1
            THEN [buf |-> [i \in 0..BLen(buf) |->
                              IF i < BLen(buf) THEN buf[i] ELSE appendNode],
                  prevLen |-> prevLen + 1]
            ELSE [buf |-> [buf EXCEPT ![prevLen] = appendNode],
                  prevLen |-> prevLen + 1]

fixOdd(buf, prevLen) ==
    IF prevLen % 2 = 0 THEN [buf |-> buf, prevLen |-> prevLen]
    ELSE LET appendNode == buf[prevLen - 1]
         IN IF BLen(buf) < prevLen + 1
            THEN [buf |-> [i \in 0..BLen(buf) |->
                              IF i < BLen(buf) THEN buf[i] ELSE appendNode],
                  prevLen |-> prevLen + 1]
            ELSE [buf |-> [buf EXCEPT ![prevLen] = appendNode],
                  prevLen |-> prevLen + 1]

initProofs(m) == [i \in 0..(m.NumLeaves - 1) |-> [Siblings |-> <<>>, Path |-> 0]]

\* faulty variant: the left half gets its sibling but not its path bit
updatePairProofsNoPathBit(Proofs, buf, idx, batch, step) ==
    LET n == BLen(Proofs)
        start == idx * batch
        end == min(start + batch, n)
        start2 == start + batch
        end2 == min(start2 + batch, n)
    IN [i \in 0..(n - 1) |->
          IF start <= i /\ i < end
          THEN [Siblings |-> Append(Proofs[i].Siblings, buf[idx + 1]),
                Path |-> Proofs[i].Path]
          ELSE IF start2 <= i /\ i < end2
          THEN [Siblings |-> Append(Proofs[i].Siblings, buf[idx]),
                Path |-> Proofs[i].Path]
          ELSE Proofs[i]]

updatePairProofs(Proofs, buf, idx, batch, step) ==
    LET n == BLen(Proofs)
        start == idx * batch
        end == min(start + batch, n)
        start2 == start + batch
        end2 == min(start2 + batch, n)
    IN [i \in 0..(n - 1) |->
          IF start <= i /\ i < end
          THEN [Siblings |-> Append(Proofs[i].Siblings, buf[idx + 1]),
                Path |-> Proofs[i].Path + Pow2(step)]
          ELSE IF start2 <= i /\ i < end2
          THEN [Siblings |-> Append(Proofs[i].Siblings, buf[idx]),
                Path |-> Proofs[i].Path]
          ELSE Proofs[i]]

RECURSIVE updateProofHandler(_, _, _, _, _, _, _)
\* for i := start; i < bufLen; i += numRoutines << 1
updateProofHandler(Proofs, buf, i, batch, step, bufLen, numRoutines) ==
    IF i >= bufLen THEN Proofs
    ELSE updateProofHandler(updatePairProofs(Proofs, buf, i, batch, step), buf,
                            i + 2 * numRoutines, batch, step, bufLen, numRoutines)

RECURSIVE updateProofsLoop(_, _, _, _, _, _)
updateProofsLoop(Proofs, buf, i, batch, step, bufLen) ==
    IF i >= bufLen THEN Proofs
    ELSE updateProofsLoop(updatePairProofs(Proofs, buf, i, batch, step), buf,
                          i + 2, batch, step, bufLen)

updateProofs(Proofs, buf, bufLen, step) ==
    updateProofsLoop(Proofs, buf, 0, Pow2(step), step, bufLen)

RECURSIVE updateProofsMap(_, _, _, _, _, _, _)
updateProofsMap(Proofs, buf, w, batch, step, bufLen, numRoutines) ==
    IF w >= numRoutines THEN Proofs
    ELSE updateProofsMap(
             updateProofHandler(Proofs, buf, 2 * w, batch, step, bufLen, numRoutines),
             buf, w + 1, batch, step, bufLen, numRoutines)

updateProofsParallel(m, Proofs, buf, bufLen, step) ==
    updateProofsMap(Proofs, buf, 0, Pow2(step), step, bufLen,
                    min(m.NumRoutines, bufLen))

----------------------------------------------------------------------------
(* Streamed proof generation (ModeProofGen) *)

RECURSIVE proofGenLevel(_, _, _, _)
\* for idx := 0; idx < prevLen; idx += 2 { buf[idx>>1] = hash(buf[idx] ++ buf[idx+1]) }
proofGenLevel(m, buf, idx, prevLen) ==
    IF idx >= prevLen THEN Ok(buf)
    ELSE LET next(r) ==
                 IF r.err # NoErr THEN [val |-> buf, err |-> r.err]
                 ELSE proofGenLevel(m, [buf EXCEPT ![idx \div 2] = r.val],
                                    idx + 2, prevLen)
         IN next(HashPair(m, buf[idx], buf[idx + 1]))

RECURSIVE proofGenSteps(_, _, _, _, _)
\* for step := 1; step < m.Depth; step++
proofGenSteps(m, Proofs, buf, prevLen, step) ==
    IF step >= m.Depth THEN [Proofs |-> Proofs, buf |-> buf, err |-> NoErr]
    ELSE LET fixed(f) ==
                 proofGenSteps(m, updateProofs(Proofs, f.buf, f.prevLen, step),
                               f.buf, f.prevLen, step + 1)
             hashed(h) ==
                 IF h.err # NoErr THEN [Proofs |-> Proofs, buf |-> h.val, err |-> h.err]
                 ELSE fixed(fixOdd(h.val, prevLen \div 2))
         IN hashed(proofGenLevel(m, buf, 0, prevLen))

RECURSIVE proofGenHandlerWideStride(_, _, _, _, _, _)
\* faulty variant: the worker strides by numRoutines << 2
proofGenHandlerWideStride(m, buf1, buf2, i, prevLen, numRoutines) ==
    IF i >= prevLen THEN Ok(buf2)
    ELSE LET next(r) ==
                 IF r.err # NoErr THEN [val |-> buf2, err |-> r.err]
                 ELSE proofGenHandlerWideStride(m, buf1, [buf2 EXCEPT ![i \div 2] = r.val],
                                                i + 4 * numRoutines, prevLen, numRoutines)
         IN next(HashPair(m, buf1[i], buf1[i + 1]))

RECURSIVE proofGenHandler(_, _, _, _, _, _)
\* for i := start; i < prevLen; i += numRoutines << 1 { buf2[i>>1] = hash(...) }
proofGenHandler(m, buf1, buf2, i, prevLen, numRoutines) ==
    IF i >= prevLen THEN Ok(buf2)
    ELSE LET next(r) ==
                 IF r.err # NoErr THEN [val |-> buf2, err |-> r.err]
                 ELSE proofGenHandler(m, buf1, [buf2 EXCEPT ![i \div 2] = r.val],
                                      i + 2 * numRoutines, prevLen, numRoutines)
         IN next(HashPair(m, buf1[i], buf1[i + 1]))

RECURSIVE proofGenMap(_, _, _, _, _, _)
\* wp.Map(proofGenHandler, argList): first error of the list
proofGenMap(m, buf1, buf2, w, prevLen, numRoutines) ==
    IF w >= numRoutines THEN Ok(buf2)
    ELSE LET join(r, rest) ==
                 IF r.err # NoErr THEN [val |-> rest.val, err |-> r.err] ELSE rest
             others(r) == join(r, proofGenMap(m, buf1, r.val, w + 1, prevLen, numRoutines))
         IN others(proofGenHandler(m, buf1, buf2, 2 * w, prevLen, numRoutines))

RECURSIVE proofGenParallelSteps(_, _, _, _, _, _, _)
proofGenParallelSteps(m, Proofs, buf, buff, prevLen, numRoutines, step) ==
    IF step >= m.Depth THEN [Proofs |-> Proofs, buf |-> buf, err |-> NoErr]
    ELSE LET nr == min(numRoutines, prevLen)
             \* buf, buff = buff, buf; buf, prevLen = m.fixOdd(buf, prevLen >> 1)
             fixed(f) ==
                 proofGenParallelSteps(
                     m, updateProofsParallel(m, Proofs, f.buf, f.prevLen, step),
                     f.buf, buf, f.prevLen, nr, step + 1)
             hashed(h) ==
                 IF h.err # NoErr THEN [Proofs |-> Proofs, buf |-> buf, err |-> h.err]
                 ELSE fixed(fixOdd(h.val, prevLen \div 2))
         IN hashed(proofGenMap(m, buf, buff, 0, prevLen, nr))

\* faulty variant: the root is hashed from buf[1] ++ buf[0]
proofGenRootSwapped(m, s) ==
    IF s.err # NoErr THEN [Proofs |-> s.Proofs, Root |-> <<>>, err |-> s.err]
    ELSE LET result(r) == [Proofs |-> s.Proofs, Root |-> r.val, err |-> r.err]
         IN result(HashPair(m, s.buf[1], s.buf[0]))

\* m.Root, err = m.HashFunc(m.concatFunc(buf[0], buf[1]))
proofGenRoot(m, s) ==
    IF s.err # NoErr THEN [Proofs |-> s.Proofs, Root |-> <<>>, err |-> s.err]
    ELSE LET result(r) == [Proofs |-> s.Proofs, Root |-> r.val, err |-> r.err]
         IN result(HashPair(m, s.buf[0], s.buf[1]))

proofGenParallel(m, Proofs, buf, prevLen) ==
    proofGenRoot(m, proofGenParallelSteps(
        m, updateProofsParallel(m, Proofs, buf, m.NumLeaves, 0),
        buf, MakeBuf(prevLen \div 2), prevLen, m.NumRoutines, 1))

proofGen(m) ==
    LET fixed(f) ==
            IF m.RunInParallel THEN proofGenParallel(m, initProofs(m), f.buf, f.prevLen)
            ELSE proofGenRoot(m, proofGenSteps(
                     m, updateProofs(initProofs(m), f.buf, m.NumLeaves, 0),
                     f.buf, f.prevLen, 1))
    IN fixed(fixOdd(m.Leaves, m.NumLeaves))

----------------------------------------------------------------------------
(* Tree building (ModeTreeBuild, ModeProofGenAndTreeBuild) *)

RECURSIVE leafMapLoop(_, _, _)
\* for i := 0; i < m.NumLeaves; i++ { m.leafMap[string(m.Leaves[i])] = i }
leafMapLoop(m, leafMap, i) ==
    IF i >= m.NumLeaves THEN leafMap
    ELSE leafMapLoop(m, [l \in (DOMAIN leafMap) \cup {m.Leaves[i]} |->
                            IF l = m.Leaves[i] THEN i ELSE leafMap[l]], i + 1)

\* m.nodes = make([][][]byte, m.Depth); m.nodes[0] = fixOdd(copy of m.Leaves)
treeBuildInit(m) ==
    [d \in 0..(m.Depth - 1) |->
        IF d = 0 THEN fixOdd(m.Leaves, m.NumLeaves).buf ELSE <<>>]

RECURSIVE treeBuildHandler(_, _, _, _, _, _)
\* for i := start; i < prevLen; i += numRoutines << 1
treeBuildHandler(m, nodes, i, prevLen, numRoutines, depth) ==
    IF i >= prevLen THEN Ok(nodes)
    ELSE LET next(r) ==
                 IF r.err # NoErr THEN [val |-> nodes, err |-> r.err]
                 ELSE treeBuildHandler(m, [nodes EXCEPT ![depth + 1][i \div 2] = r.val],
                                       i + 2 * numRoutines, prevLen, numRoutines, depth)
         IN next(HashPair(m, nodes[depth][i], nodes[depth][i + 1]))

RECURSIVE treeBuildMap(_, _, _, _, _, _)
\* wp.Map(treeBuildHandler, argList): numRoutines workers, each striding by stride << 1
treeBuildMap(m, nodes, w, prevLen, numRoutines, depth) ==
    IF w >= numRoutines THEN Ok(nodes)
    ELSE LET join(r, rest) ==
                 IF r.err # NoErr THEN [val |-> rest.val, err |-> r.err] ELSE rest
             others(r) == join(r, treeBuildMap(m, r.val, w + 1, prevLen, numRoutines, depth))
         IN others(treeBuildHandler(m, nodes, 2 * w, prevLen, m.NumRoutines, depth))

RECURSIVE computeTreeNodeParallelLoop(_, _, _, _)
computeTreeNodeParallelLoop(m, nodes, prevLen, i) ==
    IF i >= m.Depth - 1 THEN Ok(nodes)
    ELSE LET fixed(n, f) ==
                 computeTreeNodeParallelLoop(m, [n EXCEPT ![i + 1] = f.buf], f.prevLen, i + 1)
             hashed(h) ==
                 IF h.err # NoErr THEN [val |-> h.val, err |-> h.err]
                 ELSE fixed(h.val, fixOdd(h.val[i + 1], BLen(h.val[i + 1])))
         IN hashed(treeBuildMap(m, [nodes EXCEPT ![i + 1] = MakeBuf(prevLen \div 2)],
                                0, prevLen, min(m.NumRoutines, prevLen), i))

computeTreeNodeParallel(m, nodes, prevLen) ==
    computeTreeNodeParallelLoop(m, nodes, prevLen, 0)

RECURSIVE treeBuildPairs(_, _, _, _, _)
\* for j := 0; j < prevLen; j += 2 { m.nodes[i+1][j>>1] = hash(...) }
treeBuildPairs(m, nodes, i, j, prevLen) ==
    IF j >= prevLen THEN Ok(nodes)
    ELSE LET next(r) ==
                 IF r.err # NoErr THEN [val |-> nodes, err |-> r.err]
                 ELSE treeBuildPairs(m, [nodes EXCEPT ![i + 1][j \div 2] = r.val],
                                     i, j + 2, prevLen)
         IN next(HashPair(m, nodes[i][j], nodes[i][j + 1]))

RECURSIVE treeBuildLevels(_, _, _, _)
\* for i := 0; i < m.Depth-1; i++
treeBuildLevels(m, nodes, prevLen, i) ==
    IF i >= m.Depth - 1 THEN Ok(nodes)
    ELSE LET fixed(n, f) ==
                 treeBuildLevels(m, [n EXCEPT ![i + 1] = f.buf], f.prevLen, i + 1)
             hashed(h) ==
                 IF h.err # NoErr THEN [val |-> h.val, err |-> h.err]
                 ELSE fixed(h.val, fixOdd(h.val[i + 1], BLen(h.val[i + 1])))
         IN hashed(treeBuildPairs(m, [nodes EXCEPT ![i + 1] = MakeBuf(prevLen \div 2)],
                                  i, 0, prevLen))

\* m.Root, err = m.HashFunc(m.concatFunc(m.nodes[m.Depth-1][0], m.nodes[m.Depth-1][1]))
treeBuildRoot(m, nodes) == HashPair(m, nodes[m.Depth - 1][0], nodes[m.Depth - 1][1])

\* the builder's side of treeBuild, from m.nodes[0] to its return: [nodes, Root, err]
treeBuildFrom(m, nodes) ==
    LET prevLen == BLen(nodes[0])
        rooted(n, r) == [nodes |-> n, Root |-> r.val, err |-> r.err]
        levelled(s) ==
            IF s.err # NoErr THEN [nodes |-> s.val, Root |-> <<>>, err |-> s.err]
            ELSE rooted(s.val, treeBuildRoot(m, s.val))
        parallel(p) ==
            IF p.err # NoErr THEN [nodes |-> p.val, Root |-> <<>>, err |-> p.err]
            ELSE levelled(treeBuildLevels(m, p.val, prevLen, 0))
    IN parallel(IF m.RunInParallel THEN computeTreeNodeParallel(m, nodes, prevLen)
                ELSE Ok(nodes))

RECURSIVE combinedProofs(_, _, _)
\* for i := 0; i < len(m.nodes); i++ { m.updateProofs[Parallel](m.nodes[i], len(m.nodes[i]), i) }
combinedProofs(m, Proofs, i) ==
    IF i >= BLen(m.nodes) THEN Proofs
    ELSE combinedProofs(m,
             IF m.RunInParallel
             THEN updateProofsParallel(m, Proofs, m.nodes[i], BLen(m.nodes[i]), i)
             ELSE updateProofs(Proofs, m.nodes[i], BLen(m.nodes[i]), i),
             i + 1)

----------------------------------------------------------------------------
(* Configuration, trees, Proof and Verify *)

ZeroConfig ==
    [isNil |-> FALSE, concatFunc |-> "nil", HashFunc |-> NilFunc, NumRoutines |-> 0,
     Mode |-> ModeProofGen, RunInParallel |-> FALSE, SortSiblingPairs |-> FALSE,
     DisableLeafHashing |-> FALSE]

\* a nil *Config
NilConfig == [ZeroConfig EXCEPT !.isNil = TRUE]

NilProof == [Siblings |-> <<>>, Path |-> -1]
NilBlock == [data |-> <<>>, fails |-> FALSE, isNil |-> TRUE]
Block(data) == [data |-> data, fails |-> FALSE, isNil |-> FALSE]
\* a data block whose Serialize returns an error
BadBlock == [data |-> <<>>, fails |-> TRUE, isNil |-> FALSE]

\* the tree object of New after the hash, concatenation and parallelism defaults
NewInit(config, blocks) ==
    LET c == IF config.isNil THEN ZeroConfig ELSE config
    IN [concatFunc |-> IF c.concatFunc = "nil"
                       THEN (IF c.SortSiblingPairs THEN "concatSortHash" ELSE "concatHash")
                       ELSE c.concatFunc,
        HashFunc |-> IF c.HashFunc.fn = "nil"
                     THEN (IF c.RunInParallel THEN DefaultHashFuncParallel
                           ELSE DefaultHashFunc)
                     ELSE c.HashFunc,
        NumRoutines |-> IF c.RunInParallel /\ c.NumRoutines <= 0 THEN NumCPU
                        ELSE c.NumRoutines,
        Mode |-> c.Mode,
        RunInParallel |-> c.RunInParallel,
        SortSiblingPairs |-> c.SortSiblingPairs,
        DisableLeafHashing |-> c.DisableLeafHashing,
        leafMap |-> <<>>, nodes |-> <<>>, Root |-> <<>>, Leaves |-> <<>>,
        Proofs |-> <<>>,
        Depth |-> BitsLen(BLen(blocks) - 1),
        NumLeaves |-> BLen(blocks)]

\* the value of the tree variable while no tree object exists
NoTree == [NewInit(NilConfig, MakeBuf(1)) EXCEPT !.NumLeaves = 0]

\* &m.Config
ConfigOf(m) ==
    [isNil |-> FALSE, concatFunc |-> m.concatFunc, HashFunc |-> m.HashFunc,
     NumRoutines |-> m.NumRoutines, Mode |-> m.Mode, RunInParallel |-> m.RunInParallel,
     SortSiblingPairs |-> m.SortSiblingPairs, DisableLeafHashing |-> m.DisableLeafHashing]

RECURSIVE ProofWalkOddBit(_, _, _, _, _)
\* faulty variant: the path bit is set at the odd positions instead of the even ones
ProofWalkOddBit(m, idx, i, path, siblings) ==
    IF i >= m.Depth THEN [Siblings |-> siblings, Path |-> path]
    ELSE IF idx % 2 = 1
         THEN ProofWalkOddBit(m, idx \div 2, i + 1, path + Pow2(i),
                              Append(siblings, m.nodes[i][idx - 1]))
         ELSE ProofWalkOddBit(m, idx \div 2, i + 1, path,
                              Append(siblings, m.nodes[i][idx + 1]))

RECURSIVE ProofWalk(_, _, _, _, _)
\* for i := 0; i < m.Depth; i++
ProofWalk(m, idx, i, path, siblings) ==
    IF i >= m.Depth THEN [Siblings |-> siblings, Path |-> path]
    ELSE IF idx % 2 = 1
         THEN ProofWalk(m, idx \div 2, i + 1, path,
                        Append(siblings, m.nodes[i][idx - 1]))
         ELSE ProofWalk(m, idx \div 2, i + 1, path + Pow2(i),
                        Append(siblings, m.nodes[i][idx + 1]))

\* (m *MerkleTree) Proof(dataBlock)
Proof(m, dataBlock) ==
    IF m.Mode # ModeTreeBuild /\ m.Mode # ModeProofGenAndTreeBuild
    THEN [proof |-> NilProof, err |-> ErrProofInvalidModeTreeNotBuilt]
    ELSE LET lookup(leaf) ==
                 IF leaf.err # NoErr THEN [proof |-> NilProof, err |-> leaf.err]
                 ELSE IF leaf.val \notin DOMAIN m.leafMap
                 THEN [proof |-> NilProof, err |-> ErrProofInvalidDataBlock]
                 ELSE [proof |-> ProofWalk(m, m.leafMap[leaf.val], 0, 0, <<>>),
                       err |-> NoErr]
         IN lookup(leafFromBlock(dataBlock, m))

\* the configuration object after Verify has filled in its defaults
VerifyConfig(config) ==
    [config EXCEPT
        !.HashFunc = IF @.fn = "nil" THEN DefaultHashFunc ELSE @,
        !.concatFunc = IF @ = "nil" THEN "concatHash" ELSE @]

RECURSIVE VerifyLoop(_, _, _, _)
\* for _, sib := range proof.Siblings
VerifyLoop(config, result, siblings, path) ==
    IF siblings = <<>> THEN Ok(result)
    ELSE LET next(r) == IF r.err # NoErr THEN Fail(r.err)
                        ELSE VerifyLoop(config, r.val, Tail(siblings), path \div 2)
         IN next(IF path % 2 = 1 THEN HashPair(config, result, Head(siblings))
                 ELSE HashPair(config, Head(siblings), result))

\* Verify(dataBlock, proof, root, config): the result, the error, and the
\* configuration object the caller passed as the call leaves it
Verify(dataBlock, proof, root, config) ==
    IF dataBlock.isNil THEN [ok |-> FALSE, err |-> ErrDataBlockIsNil, config |-> config]
    ELSE IF proof = NilProof THEN [ok |-> FALSE, err |-> ErrProofIsNil, config |-> config]
    ELSE LET c == VerifyConfig(IF config.isNil THEN ZeroConfig ELSE config)
             after == IF config.isNil THEN config ELSE c
             replayed(r) ==
                 IF r.err # NoErr THEN [ok |-> FALSE, err |-> r.err, config |-> after]
                 ELSE [ok |-> r.val = root, err |-> NoErr, config |-> after]
             hashed(leaf) ==
                 IF leaf.err # NoErr THEN [ok |-> FALSE, err |-> leaf.err, config |-> after]
                 ELSE replayed(VerifyLoop(c, leaf.val, proof.Siblings, proof.Path))
         IN hashed(leafFromBlock(dataBlock, c))

\* (m *MerkleTree) Verify(dataBlock, proof)
TreeVerify(m, dataBlock, proof) == Verify(dataBlock, proof, m.Root, ConfigOf(m))

\* m.leafGen / m.leafGenParallel as New calls them
NewLeaves(m, blocks) ==
    IF m.RunInParallel THEN leafGenParallel(m, blocks) ELSE leafGen(m, blocks)

\* New from the mode switch on, the index task joined: [m, nilTree, err] is the
\* pair (m, err) New returns; nilTree says that the tree returned is nil
NewModes(m) ==
    IF m.Mode = ModeProofGen
    THEN LET result(pg) == [m |-> [m EXCEPT !.Proofs = pg.Proofs, !.Root = pg.Root],
                            nilTree |-> FALSE, err |-> pg.err]
         IN result(proofGen(m))
    ELSE IF m.Mode = ModeTreeBuild \/ m.Mode = ModeProofGenAndTreeBuild
    THEN LET proved(m2) == [m |-> [m2 EXCEPT !.Proofs = combinedProofs(m2, initProofs(m2), 0)],
                            nilTree |-> FALSE, err |-> NoErr]
             built(tb, m2) ==
                 IF tb.err # NoErr \/ m.Mode = ModeTreeBuild
                 THEN [m |-> m2, nilTree |-> FALSE, err |-> tb.err]
                 ELSE proved(m2)
             result(tb) == built(tb, [m EXCEPT !.nodes = tb.nodes, !.Root = tb.Root,
                                               !.leafMap = leafMapLoop(m, <<>>, 0)])
         IN result(treeBuildFrom(m, treeBuildInit(m)))
    ELSE [m |-> NoTree, nilTree |-> TRUE, err |-> ErrInvalidConfigMode]

\* New(config, blocks) run to its return
New(config, blocks) ==
    IF BLen(blocks) <= 1
    THEN [m |-> NoTree, nilTree |-> TRUE, err |-> ErrInvalidNumOfDataBlocks]
    ELSE LET withLeaves(m0, lg) ==
                 IF lg.err # NoErr THEN [m |-> NoTree, nilTree |-> TRUE, err |-> lg.err]
                 ELSE NewModes([m0 EXCEPT !.Leaves = lg.val])
             init(m0) == withLeaves(m0, NewLeaves(m0, blocks))
         IN init(NewInit(config, blocks))

----------------------------------------------------------------------------
(* The parallel batches: the handler calls the parallel builders of New     *)
(* hand to the worker pool (m.wp.Map), run one loop iteration of one        *)
(* handler at a time.                                                       *)

\* the length fixOdd gives a level of n nodes
FixedLen(n) == fixOdd(MakeBuf(n), n).prevLen

\* one poolWorkerArgs of a handler: start, the loop bound, numRoutines, batch, step, depth
WorkerArgs(start, len, numRoutines, batch, step, depth) ==
    [start |-> start, len |-> len, numRoutines |-> numRoutines,
     batch |-> batch, step |-> step, depth |-> depth]

\* argList of leafGenParallel: numRoutines clamped to lenLeaves, starting index i
leafGenParallelArgs(m, lenLeaves) ==
    LET numRoutines == min(m.NumRoutines, lenLeaves)
    IN [handler |-> "leafGenHandler",
        args |-> [i \in 0..(numRoutines - 1) |->
                     WorkerArgs(i, lenLeaves, numRoutines, 0, 0, 0)]]

\* argList of proofGenParallel (numRoutines already clamped to prevLen), starting index i << 1
proofGenParallelArgs(prevLen, numRoutines) ==
    [handler |-> "proofGenHandler",
     args |-> [i \in 0..(numRoutines - 1) |->
                  WorkerArgs(2 * i, prevLen, numRoutines, 0, 0, 0)]]

\* argList of updateProofsParallel: numRoutines clamped to bufLen, starting index i << 1
updateProofsParallelArgs(m, bufLen, step) ==
    LET numRoutines == min(m.NumRoutines, bufLen)
    IN [handler |-> "updateProofHandler",
        args |-> [i \in 0..(numRoutines - 1) |->
                     WorkerArgs(2 * i, bufLen, numRoutines, Pow2(step), step, 0)]]

\* faulty variant: the starting index is j, not j << 1
computeTreeNodeParallelArgsUnshifted(m, prevLen, i) ==
    LET numRoutines == min(m.NumRoutines, prevLen)
    IN [handler |-> "treeBuildHandler",
        args |-> [j \in 0..(numRoutines - 1) |->
                     WorkerArgs(j, prevLen, m.NumRoutines, 0, 0, i)]]

\* argList of computeTreeNodeParallel: min(m.NumRoutines, prevLen) workers, starting
\* index j << 1, and intField3 = m.NumRoutines
computeTreeNodeParallelArgs(m, prevLen, i) ==
    LET numRoutines == min(m.NumRoutines, prevLen)
    IN [handler |-> "treeBuildHandler",
        args |-> [j \in 0..(numRoutines - 1) |->
                     WorkerArgs(2 * j, prevLen, m.NumRoutines, 0, 0, i)]]

\* the batches of leafGenParallel(blocks)
leafGenParallelBatches(m, blocks) == <<leafGenParallelArgs(m, BLen(blocks))>>

RECURSIVE proofGenParallelLoop(_, _, _, _)
\* for step := 1; step < m.Depth; step++: the hashing batch, then the recording batch
proofGenParallelLoop(m, prevLen, numRoutines, step) ==
    IF step >= m.Depth THEN <<>>
    ELSE LET nr == min(numRoutines, prevLen)
             next(len) ==
                 <<proofGenParallelArgs(prevLen, nr), updateProofsParallelArgs(m, len, step)>>
                 \o proofGenParallelLoop(m, len, nr, step + 1)
         IN next(FixedLen(prevLen \div 2))

\* the batches of proofGenParallel(buf, prevLen) as proofGen calls it
proofGenParallelBatches(m) ==
    <<updateProofsParallelArgs(m, m.NumLeaves, 0)>>
    \o proofGenParallelLoop(m, FixedLen(m.NumLeaves), m.NumRoutines, 1)

RECURSIVE computeTreeNodeParallelBatchesFrom(_, _, _)
\* for i := 0; i < m.Depth-1; i++
computeTreeNodeParallelBatchesFrom(m, prevLen, i) ==
    IF i >= m.Depth - 1 THEN <<>>
    ELSE <<computeTreeNodeParallelArgs(m, prevLen, i)>>
         \o computeTreeNodeParallelBatchesFrom(m, FixedLen(prevLen \div 2), i + 1)

\* the batches of computeTreeNodeParallel(prevLen) as treeBuild calls it
computeTreeNodeParallelBatches(m) ==
    computeTreeNodeParallelBatchesFrom(m, FixedLen(m.NumLeaves), 0)

RECURSIVE combinedProofsBatchesFrom(_, _, _)
\* for i := 0; i < len(m.nodes); i++ { m.updateProofsParallel(m.nodes[i], len(m.nodes[i]), i) }
combinedProofsBatchesFrom(m, len, i) ==
    IF i >= m.Depth THEN <<>>
    ELSE <<updateProofsParallelArgs(m, len, i)>>
         \o combinedProofsBatchesFrom(m, FixedLen(len \div 2), i + 1)

\* the batches of New in ModeProofGenAndTreeBuild after treeBuild
combinedProofsBatches(m) == combinedProofsBatchesFrom(m, FixedLen(m.NumLeaves), 0)

\* the parallel builders New runs in the mode of m
Builders(m) ==
    {"leafGenParallel"}
    \cup (IF m.Mode = ModeProofGen THEN {"proofGenParallel"} ELSE {})
    \cup (IF m.Mode \in {ModeTreeBuild, ModeProofGenAndTreeBuild}
          THEN {"computeTreeNodeParallel"} ELSE {})
    \cup (IF m.Mode = ModeProofGenAndTreeBuild THEN {"updateProofsParallel"} ELSE {})

BatchesOf(fn, m, blocks) ==
    IF fn = "leafGenParallel" THEN leafGenParallelBatches(m, blocks)
    ELSE IF fn = "proofGenParallel" THEN proofGenParallelBatches(m)
    ELSE IF fn = "computeTreeNodeParallel" THEN computeTreeNodeParallelBatches(m)
    ELSE combinedProofsBatches(m)

\* i += numRoutines in leafGenHandler, i += numRoutines << 1 in the other handlers
HandlerStride(handler, numRoutines) ==
    IF handler = "leafGenHandler" THEN numRoutines ELSE 2 * numRoutines

\* what the iteration at index i writes: leaves[i], buf2[i>>1], mt.nodes[depth+1][i>>1],
\* or the proofs updatePairProofs(buf, i, batch, step) appends a sibling to
HandlerSlots(m, handler, arg, i) ==
    IF handler = "leafGenHandler" THEN {i}
    ELSE IF handler = "updateProofHandler"
    THEN LET updated == updatePairProofs(initProofs(m), MakeBuf(i + 2), i,
                                         arg.batch, arg.step)
         IN {p \in 0..(m.NumLeaves - 1) : Len(updated[p].Siblings) > 0}
    ELSE {i \div 2}

\* the iteration calls the hash function, and a caller's hash function may fail
HandlerMayFail(m, handler) ==
    handler # "updateProofHandler" /\ m.HashFunc.fn = "custom"

\* f with w added to the entries of the keys
Logged(f, keys, w) ==
    [x \in (DOMAIN f) \cup keys |->
        IF x \in keys THEN Append(IF x \in DOMAIN f THEN f[x] ELSE <<>>, w) ELSE f[x]]

----------------------------------------------------------------------------
(* The program: one call of New(cfg, blocks), its tree builder and leaf-   *)
(* index goroutine, and one call of Verify or Proof by the caller, before  *)
(* or after New.                                                           *)

VARIABLES
    cfg,     \* the caller's Config object (New copies it, Verify writes to it)
    cfg0,    \* the Config as the caller set it up
    blocks,  \* the data blocks passed to New
    pc,      \* "init": New not called; "treeBuild": inside m.treeBuild(); "done": New returned
    m,       \* the MerkleTree object of New
    ret,     \* what New returned: [nilTree, err]
    tb,      \* treeBuild's goroutine: [pc, err]
    task,    \* the leaf-index goroutine: "none", "ready", "send" (blocked on finishMap), "done"
    call,    \* the caller's Verify / Proof call and its result
    job,     \* the parallel builder New is in: its batches of handler calls, the current one
    wp,      \* the handler calls given to the worker pool: <<batch, worker>> -> its loop
    visits,  \* <<batch, index>> -> the workers whose loop ran an iteration at the index
    writes   \* <<batch, slot>> -> the workers that wrote the slot (appended to the proof)

\* the state of the parallel batches
batchVars == <<job, wp, visits, writes>>

vars == <<cfg, cfg0, blocks, pc, m, ret, tb, task, call, batchVars>>

ab == Str(<<1, 2>>)
aba == Str(<<1, 2, 1>>)
ba == Str(<<2, 1>>)

\* the content of the i-th distinct data block
Payload(i) == IF i = 0 THEN aba ELSE IF i = 1 THEN ab ELSE IF i = 2 THEN ba ELSE Str(<<i>>)

\* contents of the blocks a caller may pass to Verify / Proof: some of the tree, one never in it
CallerPayloads == {Payload(i) : i \in {0, 1, 2, MaxBlocks}}
\* values a forged proof may carry in the place of a sibling
SiblingValues == {ba, HashOf(ba)}

MaxHeight == BitsLen(MaxBlocks - 1)

Configs ==
    {NilConfig} \cup
    {c \in [isNil : {FALSE}, concatFunc : {"nil"},
            HashFunc : {NilFunc} \cup {CustomHashFunc(k) : k \in 0..MaxHeight},
            NumRoutines : {0, 1, 2, MaxRoutines},
            Mode : ModeProofGen..(ModeProofGenAndTreeBuild + 1),
            RunInParallel : BOOLEAN, SortSiblingPairs : BOOLEAN,
            DisableLeafHashing : BOOLEAN] :
        ~c.RunInParallel => c.NumRoutines = 0}

\* n pairwise distinct blocks
Distinct(n) == [i \in 0..(n - 1) |-> Block(Payload(i))]

\* block sequences of length 0..MaxBlocks: pairwise distinct blocks, except that
\* one block may repeat an earlier one or may fail to serialize
BlockSeqs ==
    UNION {{Distinct(n)}
           \cup {[Distinct(n) EXCEPT ![ij[1]] = Distinct(n)[ij[2]]] :
                    ij \in {ij \in (0..(n - 1)) \X (0..(n - 1)) : ij[2] < ij[1]}}
           \cup {[Distinct(n) EXCEPT ![i] = BadBlock] : i \in 0..(n - 1)} :
           n \in 0..MaxBlocks}

NoRet == [nilTree |-> TRUE, err |-> NoErr]
NoCall == [op |-> "none", at |-> "", src |-> "", tamper |-> "",
           arg |-> <<>>, k |-> 0, ok |-> FALSE, err |-> NoErr, proof |-> NilProof]

\* no parallel builder is running
NoJob == [fn |-> "none", batches |-> <<>>, k |-> 0, pc |-> "idle", err |-> NoErr]

Init ==
    /\ cfg \in Configs
    /\ cfg0 = cfg
    /\ blocks \in BlockSeqs
    /\ pc = "init"
    /\ m = NoTree
    /\ ret = NoRet
    /\ tb = [pc |-> "idle", err |-> NoErr]
    /\ task = "none"
    /\ call = NoCall
    /\ job = NoJob
    /\ wp = <<>> /\ visits = <<>> /\ writes = <<>>

\* New up to its return or up to its call of m.treeBuild()
NewBegin ==
    /\ pc = "init"
    /\ LET returned(r) ==
               /\ m' = r.m
               /\ ret' = [nilTree |-> r.nilTree, err |-> r.err]
               /\ pc' = "done"
               /\ tb' = tb
           withLeaves(m0, lg) ==
               IF lg.err = NoErr
                  /\ m0.Mode \in {ModeTreeBuild, ModeProofGenAndTreeBuild}
               THEN /\ m' = [m0 EXCEPT !.Leaves = lg.val]
                    /\ pc' = "treeBuild"
                    /\ tb' = [pc |-> "start", err |-> NoErr]
                    /\ ret' = ret
               ELSE IF lg.err # NoErr
               THEN returned([m |-> NoTree, nilTree |-> TRUE, err |-> lg.err])
               ELSE returned(NewModes([m0 EXCEPT !.Leaves = lg.val]))
           init(m0) == withLeaves(m0, NewLeaves(m0, blocks))
       IN IF BLen(blocks) <= 1
          THEN returned([m |-> NoTree, nilTree |-> TRUE,
                         err |-> ErrInvalidNumOfDataBlocks])
          ELSE init(NewInit(cfg, blocks))
    /\ UNCHANGED <<cfg, cfg0, blocks, task, call, batchVars>>

\* treeBuild: go func() {...}(); m.nodes[0] = fixOdd(copy of m.Leaves)
TreeBuildStart ==
    /\ pc = "treeBuild" /\ tb.pc = "start"
    /\ task' = "ready"
    /\ m' = [m EXCEPT !.nodes = treeBuildInit(m)]
    /\ tb' = [tb EXCEPT !.pc = "compute"]
    /\ UNCHANGED <<cfg, cfg0, blocks, pc, ret, call, batchVars>>

\* treeBuild: computeTreeNodeParallel (if RunInParallel), the loop over the levels and
\* the root; every hash error returns at once, success goes on to <-finishMap
TreeBuildCompute ==
    /\ pc = "treeBuild" /\ tb.pc = "compute"
    /\ LET result(r) ==
               /\ m' = [m EXCEPT !.nodes = r.nodes, !.Root = r.Root]
               /\ tb' = IF r.err # NoErr THEN [pc |-> "returned", err |-> r.err]
                        ELSE [tb EXCEPT !.pc = "recv"]
       IN result(treeBuildFrom(m, m.nodes))
    /\ UNCHANGED <<cfg, cfg0, blocks, pc, ret, task, call, batchVars>>

\* the goroutine: lock, fill m.leafMap, unlock; then it blocks on finishMap <- struct{}{}
LeafMapTask ==
    /\ task = "ready"
    /\ m' = [m EXCEPT !.leafMap = leafMapLoop(m, m.leafMap, 0)]
    /\ task' = "send"
    /\ UNCHANGED <<cfg, cfg0, blocks, pc, ret, tb, call, batchVars>>

\* <-finishMap meets finishMap <- struct{}{} (unbuffered channel); treeBuild returns nil
TreeBuildJoin ==
    /\ pc = "treeBuild" /\ tb.pc = "recv" /\ task = "send"
    /\ task' = "done"
    /\ tb' = [tb EXCEPT !.pc = "returned"]
    /\ UNCHANGED <<cfg, cfg0, blocks, pc, m, ret, call, batchVars>>

\* New after m.treeBuild() has returned
NewFinish ==
    /\ pc = "treeBuild" /\ tb.pc = "returned"
    /\ pc' = "done"
    /\ ret' = [nilTree |-> FALSE, err |-> tb.err]
    /\ m' = IF tb.err = NoErr /\ m.Mode = ModeProofGenAndTreeBuild
            THEN [m EXCEPT !.Proofs = combinedProofs(m, initProofs(m), 0)]
            ELSE m
    /\ UNCHANGED <<cfg, cfg0, blocks, tb, task, call, batchVars>>

\* the caller calls Verify(block, proof, root, cfg) before it calls New(cfg, blocks)
VerifyBeforeNew ==
    /\ pc = "init" /\ call = NoCall
    /\ LET result(r) ==
               /\ cfg' = r.config
               /\ call' = [NoCall EXCEPT !.op = "Verify", !.at = "before",
                              !.tamper = "none", !.arg = ab, !.ok = r.ok, !.err = r.err]
       IN result(Verify(Block(ab), [Siblings |-> <<>>, Path |-> 0], HashOf(ab), cfg))
    /\ UNCHANGED <<cfg0, blocks, pc, m, ret, tb, task, batchVars>>

NewSucceeded == pc = "done" /\ ~ret.nilTree /\ ret.err = NoErr

\* the proofs of leaf i the caller can get from the tree: m.Proofs[i], m.Proof(blocks[i])
ProofSources(i) ==
    (IF m.Mode # ModeTreeBuild THEN {[src |-> "Proofs", proof |-> m.Proofs[i]]} ELSE {})
    \cup
    (IF m.Mode # ModeProofGen
     THEN {[src |-> "Proof", proof |-> Proof(m, blocks[i]).proof]} ELSE {})

\* the (block, proof) pairs a caller may present for leaf i with proof p:
\* the genuine pair, a block with another leaf, one sibling replaced, a nil argument
Presented(i, p) ==
    {[tamper |-> "none", block |-> blocks[i], proof |-> p, arg |-> <<>>, k |-> 0]}
    \cup
    {[tamper |-> "block", block |-> Block(d), proof |-> p, arg |-> d, k |-> 0] :
        d \in {d \in CallerPayloads : leafFromBlock(Block(d), m).val # m.Leaves[i]}}
    \cup
    {[tamper |-> "sibling", block |-> blocks[i],
      proof |-> [p EXCEPT !.Siblings[kv[1]] = kv[2]], arg |-> kv[2], k |-> kv[1]] :
        kv \in {kv \in (1..Len(p.Siblings)) \X SiblingValues : p.Siblings[kv[1]] # kv[2]}}
    \cup
    {[tamper |-> "nilBlock", block |-> NilBlock, proof |-> p, arg |-> <<>>, k |-> 0],
     [tamper |-> "nilProof", block |-> blocks[i], proof |-> NilProof, arg |-> <<>>, k |-> 0]}

\* the caller calls m.Verify(block, proof) or Verify(block, proof, m.Root, cfg)
VerifyAfterNew ==
    /\ NewSucceeded /\ call = NoCall
    /\ \E op \in {"m.Verify", "Verify"}, i \in 0..(m.NumLeaves - 1) :
         \E s \in ProofSources(i) :
           \E a \in Presented(i, s.proof) :
             LET result(r) ==
                     /\ cfg' = IF op = "m.Verify" THEN cfg ELSE r.config
                     /\ call' = [NoCall EXCEPT !.op = op, !.at = "after", !.src = s.src,
                                    !.tamper = a.tamper, !.arg = a.arg, !.k = a.k,
                                    !.ok = r.ok, !.err = r.err]
             IN result(IF op = "m.Verify" THEN TreeVerify(m, a.block, a.proof)
                       ELSE Verify(a.block, a.proof, m.Root, cfg))
    /\ UNCHANGED <<cfg0, blocks, pc, m, ret, tb, task, batchVars>>

\* the caller calls m.Proof(dataBlock)
ProofAfterNew ==
    /\ NewSucceeded /\ call = NoCall
    /\ \E b \in {Block(p) : p \in CallerPayloads} \cup {BadBlock} :
         LET result(r) ==
                 call' = [NoCall EXCEPT !.op = "Proof", !.at = "after", !.arg = b.data,
                            !.tamper = IF b.fails THEN "badBlock" ELSE "none",
                            !.ok = (r.err = NoErr), !.err = r.err, !.proof = r.proof]
         IN result(Proof(m, b))
    /\ UNCHANGED <<cfg, cfg0, blocks, pc, m, ret, tb, task, batchVars>>

Next ==
    \/ NewBegin
    \/ TreeBuildStart
    \/ TreeBuildCompute
    \/ LeafMapTask
    \/ TreeBuildJoin
    \/ NewFinish
    \/ VerifyBeforeNew
    \/ VerifyAfterNew
    \/ ProofAfterNew

Spec == Init /\ [][Next]_vars

----------------------------------------------------------------------------
(* The parallel batches as a program: the builder calls m.wp.Map, the       *)
(* handler calls run interleaved, m.wp.Map returns.                         *)

ParallelConfigs ==
    {c \in Configs :
        /\ ~c.isNil /\ c.RunInParallel /\ c.Mode <= ModeProofGenAndTreeBuild
        /\ ~c.SortSiblingPairs /\ ~c.DisableLeafHashing
        /\ c.HashFunc \in {NilFunc, CustomHashFunc(0)}}

\* New has set up the tree object m and enters one of its parallel builders
ParallelInit ==
    /\ cfg \in ParallelConfigs
    /\ cfg0 = cfg
    /\ blocks \in {Distinct(n) : n \in 2..MaxBlocks}
    /\ pc = "parallel"
    /\ m = NewInit(cfg, blocks)
    /\ ret = NoRet
    /\ tb = [pc |-> "idle", err |-> NoErr]
    /\ task = "none"
    /\ call = NoCall
    /\ \E fn \in Builders(m) :
         job = [fn |-> fn, batches |-> BatchesOf(fn, m, blocks), k |-> 1,
                pc |-> IF BatchesOf(fn, m, blocks) = <<>> THEN "returned" ELSE "dispatch",
                err |-> NoErr]
    /\ wp = <<>> /\ visits = <<>> /\ writes = <<>>

\* the handler calls of the batch job.k
BatchCalls == {x \in DOMAIN wp : x[1] = job.k}

\* m.wp.Map(handler, argList) is called: one handler call per element of argList
MapCall ==
    /\ job.pc = "dispatch"
    /\ LET b == job.batches[job.k]
       IN wp' = [x \in (DOMAIN wp) \cup {<<job.k, w>> : w \in DOMAIN b.args} |->
                    IF x \in DOMAIN wp THEN wp[x]
                    ELSE [handler |-> b.handler, arg |-> b.args[x[2]],
                          i |-> b.args[x[2]].start, status |-> "run"]]
    /\ job' = [job EXCEPT !.pc = "map"]
    /\ UNCHANGED <<cfg, cfg0, blocks, pc, m, ret, tb, task, call, visits, writes>>

\* one iteration of a handler's loop: the hash (or the proof update) at index i, the
\* write of its result; a failing hash makes the handler return the error
HandlerStep ==
    \E x \in DOMAIN wp :
        /\ wp[x].status = "run" /\ wp[x].i < wp[x].arg.len
        /\ visits' = Logged(visits, {<<x[1], wp[x].i>>}, x[2])
        /\ \E fails \in {FALSE} \cup {HandlerMayFail(m, wp[x].handler)} :
             IF fails
             THEN /\ wp' = [wp EXCEPT ![x].status = "err"]
                  /\ writes' = writes
             ELSE /\ wp' = [wp EXCEPT ![x].i =
                               @ + HandlerStride(wp[x].handler, wp[x].arg.numRoutines)]
                  /\ writes' = Logged(writes,
                         {<<x[1], s>> : s \in HandlerSlots(m, wp[x].handler, wp[x].arg, wp[x].i)},
                         x[2])
        /\ UNCHANGED <<cfg, cfg0, blocks, pc, m, ret, tb, task, call, job>>

\* the loop of a handler ends: return nil
HandlerReturn ==
    \E x \in DOMAIN wp :
        /\ wp[x].status = "run" /\ wp[x].i >= wp[x].arg.len
        /\ wp' = [wp EXCEPT ![x].status = "nil"]
        /\ UNCHANGED <<cfg, cfg0, blocks, pc, m, ret, tb, task, call, job, visits, writes>>

\* m.wp.Map returns the results of all its handler calls; the builder returns the
\* first error of the list, or goes on to its next batch, or returns
MapReturn ==
    /\ job.pc = "map"
    /\ \A x \in BatchCalls : wp[x].status # "run"
    /\ job' = IF \E x \in BatchCalls : wp[x].status = "err"
              THEN [job EXCEPT !.pc = "returned", !.err = ErrHash]
              ELSE IF job.k = Len(job.batches) THEN [job EXCEPT !.pc = "returned"]
              ELSE [job EXCEPT !.pc = "dispatch", !.k = @ + 1]
    /\ UNCHANGED <<cfg, cfg0, blocks, pc, m, ret, tb, task, call, wp, visits, writes>>

ParallelNext ==
    \/ MapCall
    \/ HandlerStep
    \/ HandlerReturn
    \/ MapReturn

ParallelSpec == ParallelInit /\ [][ParallelNext]_vars

----------------------------------------------------------------------------
(* Properties *)

\* New has returned a tree and the caller has not yet used it
Built == NewSucceeded /\ call.at # "after"

\* the configuration of the tree m, with one option changed
WithMode(md) == [ConfigOf(m) EXCEPT !.Mode = md]
WithParallel(par) == [ConfigOf(m) EXCEPT !.RunInParallel = par]

\* the caller has verified the genuine block of a leaf with a genuine proof of it
GenuineVerify(op) == call.at = "after" /\ call.op = op /\ call.tamper = "none"

\* the caller has verified an altered block or an altered proof
ForgedVerify ==
    call.at = "after" /\ call.op \in {"m.Verify", "Verify"}
    /\ call.tamper \in {"block", "sibling"}

SameRootLeavesDepth(t) ==
    /\ t.err = NoErr /\ ~t.nilTree
    /\ t.m.Root = m.Root /\ t.m.Leaves = m.Leaves /\ t.m.Depth = m.Depth

\* C2: the tree of ModeProofGen (streamed rolling buffer) has the Root, Leaves and
\* Depth of the tree New builds in ModeTreeBuild from the same blocks and options.
C2_ProofGenRootIsTreeBuildRoot ==
    (Built /\ m.Mode = ModeProofGen)
    => SameRootLeavesDepth(New(WithMode(ModeTreeBuild), blocks))

C2_Witness ==
    Built /\ m.Mode = ModeProofGen /\ m.NumLeaves = MaxBlocks /\ m.Root # <<>>

SameRootAndProofs(t) ==
    /\ t.err = NoErr /\ ~t.nilTree
    /\ t.m.Root = m.Root
    /\ t.m.Proofs = m.Proofs
    /\ m.Mode # ModeProofGen =>
          \A i \in 0..(m.NumLeaves - 1) : Proof(t.m, blocks[i]) = Proof(m, blocks[i])

\* C3: a tree built with RunInParallel has the Root, the Proofs (Path and Siblings of
\* every leaf) and the on-demand proofs of the tree built sequentially, and conversely.
C3_ParallelEqualsSequential ==
    Built => SameRootAndProofs(New(WithParallel(~m.RunInParallel), blocks))

C3_Witness ==
    /\ Built /\ m.RunInParallel /\ m.NumRoutines = MaxRoutines
    /\ m.Mode = ModeProofGen /\ m.NumLeaves = MaxBlocks

\* C4 as claimed: with an altered block or an altered sibling Verify returns (false, nil).
C4_ForgedNeverVerifies ==
    ForgedVerify => (~call.ok /\ call.err = NoErr)

\* C4 amended: unless raw leaves (DisableLeafHashing) are combined with sorted sibling
\* pairs, Verify never returns true with an altered block or an altered sibling; it
\* returns (false, nil) unless the configured hash function itself fails on the
\* altered input.
C4_ForgedNeverVerifiesHashedOrUnsorted ==
    (ForgedVerify /\ ~(m.DisableLeafHashing /\ m.SortSiblingPairs))
    => /\ ~call.ok
       /\ call.err # NoErr => (call.err = ErrHash /\ m.HashFunc.fn = "custom")

C4_Witness ==
    /\ ForgedVerify /\ call.op = "m.Verify" /\ call.tamper = "sibling"
    /\ m.SortSiblingPairs /\ ~m.DisableLeafHashing /\ ~call.ok /\ call.err = NoErr

\* the positions of the blocks whose content is the argument of the caller's Proof call
ArgPositions == {i \in 0..(m.NumLeaves - 1) : blocks[i].data = call.arg}

\* the eagerly generated proofs for the blocks and options of m
EagerProofs ==
    IF m.Mode = ModeProofGenAndTreeBuild THEN m.Proofs
    ELSE New(WithMode(ModeProofGen), blocks).m.Proofs

ProofCalled == call.op = "Proof" /\ call.ok

ProofIsEagerProofOf(P, positions) == \A i \in positions : call.proof = P[i]

\* C5 as claimed: Proof(blocks[i]) has the Path and Siblings of Proofs[i], for every i.
C5_ProofIsProofsOfPosition ==
    ProofCalled => ProofIsEagerProofOf(EagerProofs, ArgPositions)

\* C5 amended: Proof(blocks[i]) has the Path and Siblings of Proofs[j], where j is the
\* last position whose block has the content of blocks[i] (so of Proofs[i] unless a
\* later block repeats blocks[i]).
C5_ProofIsProofsOfLastPosition ==
    ProofCalled =>
        ProofIsEagerProofOf(EagerProofs,
            {j \in ArgPositions : \A k \in ArgPositions : k <= j})

C5_Witness ==
    /\ ProofCalled /\ Cardinality(ArgPositions) = 2
    /\ m.Mode = ModeProofGenAndTreeBuild /\ m.NumLeaves = MaxBlocks

\* C6: whenever New returns an error, the tree it returns is nil.
C6_ErrorMeansNilTree ==
    (pc = "done" /\ ret.err # NoErr) => ret.nilTree

\* C7: Verify with a configuration that has SortSiblingPairs set accepts every genuine
\* proof of a tree built with that configuration.
C7_VerifySortsSiblingPairs ==
    (GenuineVerify("Verify") /\ cfg0.SortSiblingPairs) => (call.ok /\ call.err = NoErr)

\* C8: Verify leaves the caller's configuration object as it was, so that New called
\* afterwards builds the tree it builds without the call.
C8_VerifyLeavesConfig ==
    /\ call.op = "Verify" => cfg = cfg0
    /\ (NewSucceeded /\ call.at = "before") => SameRootAndProofs(New(cfg0, blocks))

\* the blocks followed by a copy of the last one
BlocksAndLast ==
    [i \in 0..BLen(blocks) |-> IF i < BLen(blocks) THEN blocks[i]
                               ELSE blocks[BLen(blocks) - 1]]

SameRootDepthAndLeafProofs(t) ==
    /\ t.err = NoErr /\ ~t.nilTree
    /\ t.m.Root = m.Root /\ t.m.Depth = m.Depth
    /\ \A i \in 0..(m.NumLeaves - 1) :
          /\ m.Mode # ModeTreeBuild => t.m.Proofs[i] = m.Proofs[i]
          /\ m.Mode # ModeProofGen =>
                ProofWalk(t.m, i, 0, 0, <<>>) = ProofWalk(m, i, 0, 0, <<>>)

C10_IndexTaskJoined ==
    tb.pc = "returned"
    => /\ task = "done"
       /\ DOMAIN m.leafMap = {m.Leaves[i] : i \in 0..(m.NumLeaves - 1)}

\* the indices the loops of a batch are to cover: every leaf index (leafGenHandler),
\* every even pair index below the level length (the other handlers)
BatchRange(b) ==
    LET len == b.args[0].len
    IN IF b.handler = "leafGenHandler" THEN 0..(len - 1)
       ELSE {i \in 0..(len - 1) : i % 2 = 0}

\* the batches whose handler calls have all returned nil
CompletedBatches ==
    {k \in 1..Len(job.batches) :
        /\ k < job.k \/ (k = job.k /\ job.pc \in {"dispatch", "returned"} /\ wp # <<>>)
        /\ \A x \in DOMAIN wp : x[1] = k => wp[x].status = "nil"
        /\ \E x \in DOMAIN wp : x[1] = k}

\* C11: in every parallel batch no index is visited twice and no slot (leaf, node,
\* proof) is written twice, by one worker or by two; a batch whose handlers have all
\* returned nil has visited exactly the indices of its range; and the handlers of a
\* batch have all returned before the handlers of the next batch exist.
C11_StridedPartition ==
    /\ \A x \in DOMAIN visits : Len(visits[x]) <= 1
    /\ \A x \in DOMAIN writes : Len(writes[x]) <= 1
    /\ \A k \in CompletedBatches :
          {x[2] : x \in {y \in DOMAIN visits : y[1] = k}} = BatchRange(job.batches[k])
    /\ \A x \in DOMAIN wp : wp[x].status = "run" => (x[1] = job.k /\ job.pc = "map")

C11_Witness ==
    /\ job.fn = "computeTreeNodeParallel" /\ job.pc = "returned" /\ job.err = NoErr
    /\ m.NumRoutines = MaxRoutines /\ m.NumLeaves = MaxBlocks
    /\ CompletedBatches = 1..(m.Depth - 1) /\ m.Depth >= 3

====
